---- MODULE Spec2Model ----
(***************************************************************************)
(* Model of the six-colors territory game (VoronoiDiagram component).      *)
(* State is the component's React state (cells, turn, playerLastColor,     *)
(* aiLastColor, gameOver, hoveredCell), the memoised startIds and the      *)
(* pending AI timeouts.  One action per handler / callback; every action   *)
(* includes the re-render and the effects that React runs after it.        *)
(***************************************************************************)
EXTENDS Integers, Sequences, FiniteSets, TLC

\* ---------------------------------------------------------------- bounds
MaxCells == 3        \* boards have 1..MaxCells cells
MaxHovers == 1       \* the mouse enters a cell at most MaxHovers times in a run
MaxTimers == 2       \* cap on simultaneously pending AI timeouts

\* ------------------------------------------------------- program constants
PALETTE == <<"orangered", "goldenrod", "khaki", "orchid", "yellowgreen", "cadetblue">>
Null == "null"
Sides == {"player", "ai"}

Colors == {PALETTE[i] : i \in 1..Len(PALETTE)}
\* colours createCells may draw for a cell (a sample of the palette)
InitColors == {PALETTE[1], PALETTE[2]}
NoHover == [id |-> -1, color |-> Null, isCorner |-> FALSE]

VARIABLES cells, turn, playerLastColor, aiLastColor, gameOver,
          startIds, hoveredCell, hovers, aiTimers, mounted, startingColor, lastAction

vars == <<cells, turn, playerLastColor, aiLastColor, gameOver,
          startIds, hoveredCell, hovers, aiTimers, mounted, startingColor, lastAction>>
game == <<cells, turn, playerLastColor, aiLastColor, gameOver>>

Ids == DOMAIN cells
Other(side) == IF side = "player" THEN "ai" ELSE "player"

\* ascending enumeration of a finite set of integers (array order of ids)
RECURSIVE SortedSeq(_)
SortedSeq(S) ==
  IF S = {} THEN <<>>
  ELSE LET m == CHOOSE x \in S : \A y \in S : x <= y
       IN <<m>> \o SortedSeq(S \ {m})

\* ------------------------------------------------------------------ board
\* createCells: one record per site; neighbours from the Delaunay graph,
\* border abstracts (c.polygon || []).some(isBorderPoint), owner null.
Adjacent(i, j, reach) == i # j /\ (IF i > j THEN i - j ELSE j - i) <= reach

createCells(n, reach, borderIds, cornerIds, col) ==
  [i \in 0..(n-1) |->
     [id |-> i,
      color |-> col[i],
      neighbors |-> {j \in 0..(n-1) : Adjacent(i, j, reach)},
      owner |-> Null,
      isCorner |-> i \in cornerIds,
      border |-> i \in borderIds]]

\* ----------------------------------------------------- computeLegalColors
lastColorOf(side) == IF side = "player" THEN playerLastColor ELSE aiLastColor
startIdOf(side) == IF side = "player" THEN startIds.playerStartId ELSE startIds.aiStartId

\* variant: the colour the side started with stays forbidden for the whole game
computeLegalColorsKeepStart(owner) ==
  LET lastSelf == lastColorOf(owner)
      lastOpp == lastColorOf(Other(owner))
      baseForbidden == ({lastSelf, lastOpp} \ {Null}) \cup {startingColor[owner]}
  IN SelectSeq(PALETTE, LAMBDA c : c \notin baseForbidden)

\* variant: the opponent's last colour is not forbidden
computeLegalColorsIgnoreOpponent(owner) ==
  LET lastSelf == lastColorOf(owner)
      startColor == cells[startIdOf(owner)].color
      baseForbidden == ({lastSelf} \ {Null})
                         \cup (IF lastSelf = Null THEN {startColor} ELSE {})
  IN SelectSeq(PALETTE, LAMBDA c : c \notin baseForbidden)

\* variant: the first move may repeat the starting colour
computeLegalColorsAllowStart(owner) ==
  LET lastSelf == lastColorOf(owner)
      lastOpp == lastColorOf(Other(owner))
      baseForbidden == {lastSelf, lastOpp} \ {Null}
  IN SelectSeq(PALETTE, LAMBDA c : c \notin baseForbidden)

computeLegalColors(owner) ==
  LET lastSelf == lastColorOf(owner)
      lastOpp == lastColorOf(Other(owner))
      startColor == cells[startIdOf(owner)].color
      baseForbidden == ({lastSelf, lastOpp} \ {Null})
                         \cup (IF lastSelf = Null THEN {startColor} ELSE {})
  IN SelectSeq(PALETTE, LAMBDA c : c \notin baseForbidden)

SeqRange(s) == {s[i] : i \in 1..Len(s)}
legalSet(owner) == SeqRange(computeLegalColors(owner))

\* ---------------------------------------------------------------- applyMove
ownedIds(cs, owner) == {i \in DOMAIN cs : cs[i].owner = owner}

\* variant: a neighbour of the chosen colour is taken whoever owns it
VisitNeighborCapture(st, nb, owner, color) ==
  IF nb \in st.visited THEN st
  ELSE LET v == [st EXCEPT !.visited = @ \cup {nb}]
       IN IF v.next[nb].owner = owner
          THEN [v EXCEPT !.next[nb].color = color,
                         !.queue = Append(@, nb),
                         !.enq[nb] = @ + 1]
          ELSE IF v.next[nb].color = color
               THEN [v EXCEPT !.next[nb].owner = owner,
                              !.queue = Append(@, nb),
                              !.enq[nb] = @ + 1]
          ELSE v

\* variant: an annexed cell is not queued, so the fill stops after one layer
VisitNeighborOneLayer(st, nb, owner, color) ==
  IF nb \in st.visited THEN st
  ELSE LET v == [st EXCEPT !.visited = @ \cup {nb}]
       IN IF v.next[nb].owner # Null /\ v.next[nb].owner # owner THEN v
          ELSE IF v.next[nb].owner = owner
               THEN [v EXCEPT !.next[nb].color = color,
                              !.queue = Append(@, nb),
                              !.enq[nb] = @ + 1]
          ELSE IF v.next[nb].owner = Null /\ v.next[nb].color = color
               THEN [v EXCEPT !.next[nb].owner = owner,
                              !.next[nb].color = color]
          ELSE v

\* variant: every neighbour reached is recoloured before it is examined
VisitNeighborRecolor(st, nb, owner, color) ==
  IF nb \in st.visited THEN st
  ELSE LET v == [st EXCEPT !.visited = @ \cup {nb}, !.next[nb].color = color]
       IN IF v.next[nb].owner # Null /\ v.next[nb].owner # owner THEN v
          ELSE IF v.next[nb].owner = owner
               THEN [v EXCEPT !.queue = Append(@, nb),
                              !.enq[nb] = @ + 1]
          ELSE v

\* one neighbour of the dequeued cell (body of the for-of loop)
VisitNeighbor(st, nb, owner, color) ==
  IF nb \in st.visited THEN st
  ELSE LET v == [st EXCEPT !.visited = @ \cup {nb}]
       IN IF v.next[nb].owner # Null /\ v.next[nb].owner # owner THEN v
          ELSE IF v.next[nb].owner = owner
               THEN [v EXCEPT !.next[nb].color = color,
                              !.queue = Append(@, nb),
                              !.enq[nb] = @ + 1]
          ELSE IF v.next[nb].owner = Null /\ v.next[nb].color = color
               THEN [v EXCEPT !.next[nb].owner = owner,
                              !.next[nb].color = color,
                              !.queue = Append(@, nb),
                              !.enq[nb] = @ + 1]
          ELSE v

RECURSIVE VisitNeighbors(_, _, _, _)
VisitNeighbors(st, nbs, owner, color) ==
  IF nbs = <<>> THEN st
  ELSE VisitNeighbors(VisitNeighbor(st, Head(nbs), owner, color), Tail(nbs), owner, color)

\* while (queue.length > 0) { cid = queue.shift(); ... }
RECURSIVE FloodFill(_, _, _)
FloodFill(st, owner, color) ==
  IF st.queue = <<>> THEN st
  ELSE LET cid == Head(st.queue)
           popped == [st EXCEPT !.queue = Tail(@), !.steps = @ + 1]
       IN FloodFill(VisitNeighbors(popped, SortedSeq(popped.next[cid].neighbors), owner, color),
                    owner, color)

\* variant: visited starts empty instead of holding the owned cells
applyMoveRunNoInitVisited(prev, owner, color) ==
  LET owned == ownedIds(prev, owner)
      recolored == [i \in DOMAIN prev |->
                      IF i \in owned THEN [prev[i] EXCEPT !.color = color] ELSE prev[i]]
      st0 == [next |-> recolored,
              queue |-> SortedSeq(owned),
              visited |-> {},
              enq |-> [i \in DOMAIN prev |-> IF i \in owned THEN 1 ELSE 0],
              steps |-> 0]
  IN IF owned = {} THEN [st0 EXCEPT !.next = prev] ELSE FloodFill(st0, owner, color)

\* the setCells updater of applyMove, with the traversal bookkeeping
applyMoveRun(prev, owner, color) ==
  LET owned == ownedIds(prev, owner)
      recolored == [i \in DOMAIN prev |->
                      IF i \in owned THEN [prev[i] EXCEPT !.color = color] ELSE prev[i]]
      st0 == [next |-> recolored,
              queue |-> SortedSeq(owned),
              visited |-> owned,
              enq |-> [i \in DOMAIN prev |-> IF i \in owned THEN 1 ELSE 0],
              steps |-> 0]
  IN IF owned = {} THEN [st0 EXCEPT !.next = prev] ELSE FloodFill(st0, owner, color)

applyMove(prev, owner, color) == applyMoveRun(prev, owner, color).next

\* ------------------------------------------------------ hover (mouse leave)
\* breadth-first search of the connected cells that share the colour of cellId
RECURSIVE SameColorSearch(_, _, _, _, _)
SameColorSearch(queue, visited, sameColorCells, targetColor, cs) ==
  IF queue = <<>> THEN sameColorCells
  ELSE LET currentCellId == Head(queue)
       IN IF currentCellId \in visited
          THEN SameColorSearch(Tail(queue), visited, sameColorCells, targetColor, cs)
          ELSE IF cs[currentCellId].color = targetColor
               THEN SameColorSearch(
                      Tail(queue) \o SelectSeq(SortedSeq(cs[currentCellId].neighbors),
                                               LAMBDA nb : nb \notin visited \cup {currentCellId}),
                      visited \cup {currentCellId},
                      sameColorCells \cup {currentCellId}, targetColor, cs)
               ELSE SameColorSearch(Tail(queue), visited \cup {currentCellId},
                                    sameColorCells, targetColor, cs)

findSameColorNeighbors(cellId, cs) ==
  SameColorSearch(<<cellId>>, {}, {}, cs[cellId].color, cs)

\* the in-place writes of handleMouseLeave
restoreColors(cs, hovered) ==
  IF hovered # NoHover /\ ~hovered.isCorner
  THEN LET sameColorCells == findSameColorNeighbors(hovered.id, cs)
       IN [i \in DOMAIN cs |->
             IF i \in sameColorCells /\ ~cs[i].isCorner
             THEN [cs[i] EXCEPT !.color = hovered.color]
             ELSE cs[i]]
  ELSE cs

\* ------------------------------------------------------------------ effects
\* ownership initialisation effect (runs once on mount)
initOwnership(prev, ids) ==
  LET withPlayer == [prev EXCEPT ![ids.playerStartId].owner = "player"]
  IN [withPlayer EXCEPT ![ids.aiStartId].owner = "ai"]

\* variant: every cell is taken for a border cell
gameOverEffectAllCells(cs, over) ==
  LET borderCellIds == DOMAIN cs
  IN IF over # Null THEN over
     ELSE IF borderCellIds = {} THEN over
     ELSE IF \A i \in borderCellIds : cs[i].owner = "player" THEN "player"
     ELSE IF \A i \in borderCellIds : cs[i].owner = "ai" THEN "ai"
     ELSE over

\* variant: owning one border cell is enough to win
gameOverEffectSome(cs, over) ==
  LET borderCellIds == {i \in DOMAIN cs : cs[i].border}
  IN IF over # Null THEN over
     ELSE IF borderCellIds = {} THEN over
     ELSE IF \E i \in borderCellIds : cs[i].owner = "player" THEN "player"
     ELSE IF \E i \in borderCellIds : cs[i].owner = "ai" THEN "ai"
     ELSE over

\* game-over effect: the value of gameOver after the effect has run
gameOverEffect(cs, over) ==
  LET borderCellIds == {i \in DOMAIN cs : cs[i].border}
  IN IF over # Null THEN over
     ELSE IF borderCellIds = {} THEN over
     ELSE IF \A i \in borderCellIds : cs[i].owner = "player" THEN "player"
     ELSE IF \A i \in borderCellIds : cs[i].owner = "ai" THEN "ai"
     ELSE over

\* variant: the effect does not look at turn
aiEffectAnyTurn(t, over) == IF over # Null THEN 0 ELSE 1

\* variant: the early return tests for the player's turn instead of the AI's
aiEffectOnPlayerTurn(t, over) == IF t # "player" \/ over # Null THEN 0 ELSE 1

\* AI effect body: number of timeouts it schedules for this render
aiEffect(t, over) == IF t # "ai" \/ over # Null THEN 0 ELSE 1

\* AI effect cleanup: clearTimeout(t) of the previous run
aiEffectCleanup(pending) == IF pending > 0 THEN pending - 1 ELSE 0

CapTimers(k) == IF k > MaxTimers THEN MaxTimers ELSE k

\* Re-render after cells / turn changed, effects flushed until quiescent:
\* AI effect (cleanup, run), game-over effect, and when that one set gameOver
\* a second render in which the AI effect is cleaned up and run again.
commit(cs, t, over, pending) ==
  LET timers1 == aiEffectCleanup(pending) + aiEffect(t, over)
      over1 == gameOverEffect(cs, over)
      timers2 == IF over1 # over
                 THEN aiEffectCleanup(timers1) + aiEffect(t, over1)
                 ELSE timers1
  IN [gameOver |-> over1, aiTimers |-> CapTimers(timers2)]

\* ----------------------------------------------------------- AI decision
\* counts map of the timeout callback: one increment per (owned cell, neighbour) pair
aiCount(col) ==
  LET aiOwned == ownedIds(cells, "ai")
  IN Cardinality({p \in aiOwned \X Ids :
                    /\ p[2] \in cells[p[1]].neighbors
                    /\ p[2] \notin aiOwned
                    /\ cells[p[2]].owner = Null
                    /\ cells[p[2]].color = col
                    /\ col \in legalSet("ai")})

\* variant: the best loop does not skip the colours that are not legal
RECURSIVE aiBestLoopAnyColor(_, _, _)
aiBestLoopAnyColor(i, best, bestCount) ==
  IF i > Len(PALETTE) THEN best
  ELSE IF aiCount(PALETTE[i]) > bestCount
       THEN aiBestLoopAnyColor(i + 1, PALETTE[i], aiCount(PALETTE[i]))
       ELSE aiBestLoopAnyColor(i + 1, best, bestCount)

\* variant: a later colour with an equal count replaces the best so far
RECURSIVE aiBestLoopLastWins(_, _, _)
aiBestLoopLastWins(i, best, bestCount) ==
  IF i > Len(PALETTE) THEN best
  ELSE IF PALETTE[i] \notin legalSet("ai") THEN aiBestLoopLastWins(i + 1, best, bestCount)
  ELSE IF aiCount(PALETTE[i]) >= bestCount
       THEN aiBestLoopLastWins(i + 1, PALETTE[i], aiCount(PALETTE[i]))
       ELSE aiBestLoopLastWins(i + 1, best, bestCount)

\* best / bestCount loop over PALETTE, then the fallback loop
RECURSIVE aiBestLoop(_, _, _)
aiBestLoop(i, best, bestCount) ==
  IF i > Len(PALETTE) THEN best
  ELSE IF PALETTE[i] \notin legalSet("ai") THEN aiBestLoop(i + 1, best, bestCount)
  ELSE IF aiCount(PALETTE[i]) > bestCount
       THEN aiBestLoop(i + 1, PALETTE[i], aiCount(PALETTE[i]))
       ELSE aiBestLoop(i + 1, best, bestCount)

aiBest ==
  LET best == aiBestLoop(1, Null, -1)
      legal == computeLegalColors("ai")
  IN IF best # Null THEN best
     ELSE IF legal # <<>> THEN legal[1] ELSE Null

\* ------------------------------------------------------------------- Init
\* The state of the first render.  Boards: n cells in a row, adjacent when their
\* ids differ by at most reach (a path, or every pair adjacent).  The player
\* starts on cell 0 (the cell holding the bottom-left corner), the AI on any
\* cell (the one holding the top-right corner, possibly the same cell); the
\* corner cells are the two starting cells and the last cell, and a cell's
\* polygon touches the viewport border exactly when it is a corner cell.
Init ==
  \E n \in 1..MaxCells, reach \in {1, MaxCells} :
  \E aiStart \in 0..(n-1), col \in [0..(n-1) -> InitColors] :
    LET cornerIds == {0, aiStart, n - 1}
        borderIds == cornerIds
    IN /\ cells = createCells(n, reach, borderIds, cornerIds, col)
       /\ startIds = [playerStartId |-> 0, aiStartId |-> aiStart]
       /\ startingColor = [player |-> col[0], ai |-> col[aiStart]]
       /\ turn = "player"
       /\ playerLastColor = Null
       /\ aiLastColor = Null
       /\ gameOver = Null
       /\ hoveredCell = NoHover
       /\ hovers = 0
       /\ aiTimers = 0
       /\ mounted = FALSE
       /\ lastAction = [kind |-> "none", applied |-> Null]

\* ---------------------------------------------------------------- actions
\* first render's effects: AI effect, game-over effect on the unowned board,
\* ownership initialisation, then the re-render it causes
Mount ==
  /\ ~mounted
  /\ mounted' = TRUE
  /\ LET first == commit(cells, turn, gameOver, aiTimers)
         next == initOwnership(cells, startIds)
         c == commit(next, turn, first.gameOver, first.aiTimers)
     IN /\ cells' = next
        /\ gameOver' = c.gameOver
        /\ aiTimers' = c.aiTimers
  /\ lastAction' = [kind |-> "none", applied |-> Null]
  /\ UNCHANGED <<turn, playerLastColor, aiLastColor, startIds, hoveredCell, hovers, startingColor>>

\* variant: the turn is not checked
playerMayMoveAnyTurn(color) ==
  /\ gameOver = Null
  /\ color \in legalSet("player")

\* variant: the colour is not checked against the legal colours
playerMayMoveAnyColor(color) ==
  ~(turn # "player" \/ gameOver # Null)

\* variant: a colour that annexes nothing is refused
playerMayMoveMustAnnex(color) ==
  /\ ~(turn # "player" \/ gameOver # Null)
  /\ color \in legalSet("player")
  /\ ownedIds(applyMove(cells, "player", color), "player") # ownedIds(cells, "player")

\* guard of handlePlayerChooseColor
playerMayMove(color) ==
  /\ ~(turn # "player" \/ gameOver # Null)
  /\ color \in legalSet("player")

handlePlayerChooseColor(color) ==
  /\ mounted
  /\ IF playerMayMove(color)
     THEN LET next == applyMove(cells, "player", color)
              c == commit(next, "ai", gameOver, aiTimers)
          IN /\ cells' = next
             /\ playerLastColor' = color
             /\ turn' = "ai"
             /\ gameOver' = c.gameOver
             /\ aiTimers' = c.aiTimers
             /\ lastAction' = [kind |-> "request", applied |-> "player"]
     ELSE /\ UNCHANGED <<cells, playerLastColor, turn, gameOver, aiTimers>>
          /\ lastAction' = [kind |-> "request", applied |-> Null]
  /\ UNCHANGED <<aiLastColor, startIds, hoveredCell, hovers, mounted, startingColor>>

\* the setTimeout callback of the AI effect
aiTimeout ==
  /\ mounted
  /\ aiTimers > 0
  /\ LET best == aiBest
         next == IF best # Null THEN applyMove(cells, "ai", best) ELSE cells
         c == commit(next, "player", gameOver, aiTimers - 1)
     IN /\ cells' = next
        /\ aiLastColor' = (IF best # Null THEN best ELSE aiLastColor)
        /\ turn' = "player"
        /\ gameOver' = c.gameOver
        /\ aiTimers' = c.aiTimers
        /\ lastAction' = [kind |-> "timeout",
                          applied |-> IF best # Null THEN "ai" ELSE Null]
  /\ UNCHANGED <<playerLastColor, startIds, hoveredCell, hovers, mounted, startingColor>>

\* cells the pointer enters: entering and leaving a corner cell writes nothing
\* but hoveredCell, so the pointer is moved over the other cells only
HoverIds == {i \in Ids : ~cells[i].isCorner}

handleCellHover(i) ==
  /\ mounted
  /\ hoveredCell = NoHover
  /\ hovers < MaxHovers
  /\ hovers' = hovers + 1
  /\ hoveredCell' = [id |-> i, color |-> cells[i].color, isCorner |-> cells[i].isCorner]
  /\ UNCHANGED <<cells, turn, playerLastColor, aiLastColor, gameOver,
                 startIds, aiTimers, mounted, startingColor, lastAction>>

handleMouseLeave ==
  /\ mounted
  /\ hoveredCell # NoHover
  /\ cells' = restoreColors(cells, hoveredCell)
  /\ hoveredCell' = NoHover
  /\ UNCHANGED <<turn, playerLastColor, aiLastColor, gameOver,
                 startIds, hovers, aiTimers, mounted, startingColor, lastAction>>

Next ==
  \/ Mount
  \/ \E color \in Colors : handlePlayerChooseColor(color)
  \/ aiTimeout
  \/ \E i \in HoverIds : handleCellHover(i)
  \/ handleMouseLeave

Spec == Init /\ [][Next]_vars

\* The timeout of the AI effect fires once it has been set and is not cleared:
\* weak fairness of aiTimeout, WF_vars(aiTimeout), written out with
\* ENABLED <<aiTimeout>>_vars replaced by the guard of aiTimeout, to which it
\* is equal (the callback always decrements aiTimers, so it changes vars).
FairSpec == Spec /\ ([]<>(~(mounted /\ aiTimers > 0)) \/ []<><<aiTimeout>>_vars)

\* Boards of four cells in a strip triangulation (ids differing by at most two
\* are adjacent), colours from three palette entries; the AI starts on the
\* player's cell or on the last cell.
InitStrip ==
  \E aiStart \in {0, 3}, col \in [0..3 -> {PALETTE[1], PALETTE[2], PALETTE[3]}] :
    LET cornerIds == {0, aiStart, 3}
    IN /\ cells = createCells(4, 2, cornerIds, cornerIds, col)
       /\ startIds = [playerStartId |-> 0, aiStartId |-> aiStart]
       /\ startingColor = [player |-> col[0], ai |-> col[aiStart]]
       /\ turn = "player"
       /\ playerLastColor = Null
       /\ aiLastColor = Null
       /\ gameOver = Null
       /\ hoveredCell = NoHover
       /\ hovers = 0
       /\ aiTimers = 0
       /\ mounted = FALSE
       /\ lastAction = [kind |-> "none", applied |-> Null]

SpecStrip == InitStrip /\ [][Next]_vars

TypeOK ==
  /\ turn \in Sides
  /\ playerLastColor \in Colors \cup {Null}
  /\ aiLastColor \in Colors \cup {Null}
  /\ gameOver \in Sides \cup {Null}
  /\ aiTimers \in 0..MaxTimers
  /\ \A i \in Ids : cells[i].owner \in Sides \cup {Null} /\ cells[i].color \in Colors

\* ----------------------------------------------------------------- claims
\* a step in which applyMove(side, .) was called (hover steps keep lastAction)
MoveBy(side) == lastAction'.applied = side /\ hoveredCell' = hoveredCell
\* the colour passed to applyMove in such a step
MoveColor(side) == IF side = "player" THEN playerLastColor' ELSE aiLastColor'

\* C1: ownership monotonicity / no capture - in every step, a cell owned by
\* 'player' or 'ai' keeps that owner (never unowned again, never the other side).
C1_OwnershipMonotone ==
  [][\A i \in Ids : cells[i].owner \in Sides => cells'[i].owner = cells[i].owner]_vars

\* a player cell that was annexed borders an AI cell, and the AI has just moved
C1_Witness ==
  /\ lastAction.applied = "ai"
  /\ \E i \in Ids \ {startIds.playerStartId} :
       /\ cells[i].owner = "player"
       /\ \E j \in cells[i].neighbors : cells[j].owner = "ai"

\* cells reachable from territory S through unowned cells that display color
RECURSIVE Annexable(_, _)
Annexable(S, color) ==
  LET add == {j \in Ids \ S : /\ cells[j].owner = Null
                              /\ cells[j].color = color
                              /\ \E i \in S : j \in cells[i].neighbors}
  IN IF add = {} THEN S ELSE Annexable(S \cup add, color)

\* C2: flood-fill exactness - after applyMove(side, color) the mover owns exactly
\* its pre-move territory plus the cells reachable from it through pre-move
\* unowned cells displaying color.
C2_FloodFillExact ==
  [][\A side \in Sides :
       MoveBy(side) =>
         ownedIds(cells', side) = Annexable(ownedIds(cells, side), MoveColor(side))]_vars

\* the mover has just annexed a cell and an unowned neighbour of its territory
\* (of another colour) was left out
C2_Witness ==
  \E side \in Sides :
    /\ lastAction.applied = side
    /\ Cardinality(ownedIds(cells, side)) >= 2
    /\ \E i \in ownedIds(cells, side) : \E j \in cells[i].neighbors :
         cells[j].owner = Null /\ cells[j].color # lastColorOf(side)

\* C3: turn alternation - the player moves first, a move is applied only on the
\* mover's turn and leaves the turn with the other side.
C3_TurnAlternation ==
  /\ turn = "player"
  /\ [][\A side \in Sides : MoveBy(side) => turn = side /\ turn' = Other(side)]_vars

\* both sides have moved, the AI last, and it is the player's turn again
C3_Witness ==
  /\ lastAction.applied = "ai"
  /\ playerLastColor # Null
  /\ aiLastColor # Null
  /\ turn = "player"

\* C4: terminal stability - once gameOver is set, gameOver, the cells (owner and
\* colour), turn and both last colours never change again.
C4_TerminalStable ==
  [][gameOver # Null =>
       /\ gameOver' = gameOver
       /\ cells' = cells
       /\ turn' = turn
       /\ playerLastColor' = playerLastColor
       /\ aiLastColor' = aiLastColor]_vars

\* C5: win detection agrees with border ownership - gameOver names a side only
\* if that side owns every border cell, and once the effects have run a border
\* owned entirely by one side means gameOver is that side.
BorderIds == {i \in Ids : cells[i].border}
OwnsBorder(side) == \A i \in BorderIds : cells[i].owner = side

C5_WinAgreesWithBorder ==
  /\ gameOver = "player" => OwnsBorder("player")
  /\ gameOver = "ai" => OwnsBorder("ai")
  /\ \A side \in Sides :
       (mounted /\ BorderIds # {} /\ OwnsBorder(side)) => gameOver = side

\* the AI won by a move while a cell off the border is still unowned
C5_Witness ==
  /\ gameOver = "ai"
  /\ lastAction.applied = "ai"
  /\ \E i \in Ids : ~cells[i].border /\ cells[i].owner = Null

\* C6: legality closure - legalColors(side) is a subset of the palette without
\* either side's last colour, and every applied move used a colour that was
\* legal for the mover in the state where it was chosen.
C6_LegalityClosure ==
  /\ [](\A side \in Sides :
          /\ legalSet(side) \subseteq Colors
          /\ lastColorOf(side) \notin legalSet(side)
          /\ lastColorOf(Other(side)) \notin legalSet(side))
  /\ [][\A side \in Sides : MoveBy(side) => MoveColor(side) \in legalSet(side)]_vars

\* both sides have a last colour and a move has just been applied
C6_Witness ==
  /\ playerLastColor # Null
  /\ aiLastColor # Null
  /\ lastAction.applied \in Sides

\* C7: legalColors(side) is exactly the palette minus both last colours, minus
\* the side's starting colour (as captured at game start) while the side has
\* not moved yet.
C7_LegalColorsExact ==
  \A side \in Sides :
    legalSet(side) =
      Colors \ ({lastColorOf(side), lastColorOf(Other(side))}
                  \cup (IF lastColorOf(side) = Null THEN {startingColor[side]} ELSE {}))

\* a side that has moved, whose starting cell no longer shows its starting
\* colour, may pick the starting colour again
C7_Witness ==
  \E side \in Sides :
    /\ lastColorOf(side) # Null
    /\ cells[startIdOf(side)].color # startingColor[side]
    /\ startingColor[side] \in legalSet(side)

\* C8: rejected moves do not mutate - a request for a colour made when it is
\* not the player's turn, or with an illegal colour, or after the game is over,
\* applies no move and leaves cells, turn, both last colours and gameOver as
\* they were.
Acceptable(color) ==
  turn = "player" /\ gameOver = Null /\ color \in legalSet("player")

C8_RejectedNoMutation ==
  [][\A color \in Colors :
       (~Acceptable(color) /\ handlePlayerChooseColor(color)) =>
          /\ UNCHANGED game
          /\ lastAction'.applied = Null]_vars

\* a request has just been rejected although it was the player's turn and the
\* game was running (an illegal colour)
C8_Witness ==
  /\ lastAction = [kind |-> "request", applied |-> Null]
  /\ turn = "player"
  /\ gameOver = Null
  /\ playerLastColor # Null

\* C9: frame of applyMove(side, color) - opponent cells and unowned cells that
\* are not annexed keep owner and colour; an annexed cell displayed color before
\* the move; only the mover's cells and the annexed cells change.
C9_MoveFrame ==
  [][\A side \in Sides :
       MoveBy(side) =>
         \A i \in Ids :
           /\ cells[i].owner = Other(side) => cells'[i] = cells[i]
           /\ (cells[i].owner = Null /\ cells'[i].owner # side) => cells'[i] = cells[i]
           /\ (cells[i].owner = Null /\ cells'[i].owner = side) =>
                cells[i].color = MoveColor(side) /\ cells'[i].color = MoveColor(side)
           /\ cells'[i] # cells[i] =>
                cells[i].owner = side \/ (cells[i].owner = Null /\ cells'[i].owner = side)]_vars

\* a move was just applied next to an opponent cell and to an unowned cell
\* that it did not annex
C9_Witness ==
  \E side \in Sides :
    /\ lastAction.applied = side
    /\ \E i \in ownedIds(cells, side) :
         /\ \E j \in cells[i].neighbors : cells[j].owner = Other(side)
         /\ \E j \in cells[i].neighbors : cells[j].owner = Null

\* C10: the AI's move is applied only on the AI's turn while the game is
\* running; a pending timeout exists only in such a state, there is never more
\* than one, and the player's move is applied only on the player's turn.
C10_AiOnlyOnItsTurn ==
  /\ [](/\ aiTimers <= 1
        /\ aiTimers > 0 => (turn = "ai" /\ gameOver = Null))
  /\ [][/\ MoveBy("ai") => (turn = "ai" /\ gameOver = Null /\ aiTimers = 1)
        /\ MoveBy("player") => (turn = "player" /\ gameOver = Null /\ aiTimers = 0)]_vars

\* a timeout is pending for the AI's second (or later) move
C10_Witness ==
  /\ aiTimers = 1
  /\ aiLastColor # Null
  /\ turn = "ai"

\* number of frontier cells of the AI that display col: unowned cells next to
\* at least one AI cell
FrontierTally(col) ==
  Cardinality({j \in Ids : /\ cells[j].owner = Null
                           /\ cells[j].color = col
                           /\ \E i \in ownedIds(cells, "ai") : j \in cells[i].neighbors})

PaletteIndex(col) == CHOOSE k \in 1..Len(PALETTE) : PALETTE[k] = col

\* C11: opponent strategy choice - the colour the AI applies is legal, its
\* tally of frontier cells is maximal among the legal colours, and it is the
\* first in palette order among the legal colours with that tally.
C11_AiPicksMaxTally ==
  [][MoveBy("ai") =>
       /\ aiLastColor' \in legalSet("ai")
       /\ \A c \in legalSet("ai") :
            /\ FrontierTally(c) <= FrontierTally(aiLastColor')
            /\ FrontierTally(c) = FrontierTally(aiLastColor') =>
                 PaletteIndex(aiLastColor') <= PaletteIndex(c)]_vars

\* C12: opponent tally - while the AI's decision is pending, the count the
\* strategy holds for each legal colour is the number of frontier cells that
\* display it.
C12_TallyIsFrontierCells ==
  aiTimers > 0 => \A c \in legalSet("ai") : aiCount(c) = FrontierTally(c)

\* a step in which the timeout callback of the AI effect ran
TimeoutStep == lastAction'.kind = "timeout" /\ hoveredCell' = hoveredCell /\ turn = "ai"
FirstLegal(side) ==
  CHOOSE c \in legalSet(side) : \A d \in legalSet(side) : PaletteIndex(c) <= PaletteIndex(d)

\* C13: opponent fallback - whenever the AI has a legal colour its callback
\* applies a move with a legal colour, and when no legal colour is displayed by
\* any frontier cell that colour is the first legal colour in palette order.
C13_AiFallback ==
  [][(TimeoutStep /\ legalSet("ai") # {}) =>
       /\ lastAction'.applied = "ai"
       /\ aiLastColor' \in legalSet("ai")
       /\ (\A c \in legalSet("ai") : FrontierTally(c) = 0) =>
            aiLastColor' = FirstLegal("ai")]_vars

\* the AI has just moved on a board that consists of the two starting cells
\* only, so it has no frontier at all
C13_Witness ==
  /\ lastAction.applied = "ai"
  /\ Cardinality(Ids) = 2
  /\ startIds.playerStartId # startIds.aiStartId
  /\ aiLastColor # Null

\* C14: the opponent never deadlocks - provided a set timeout eventually fires,
\* whenever it is the AI's turn in a running game the AI's move is eventually
\* applied and the turn is the player's again.
C14_AiEventuallyMoves ==
  (turn = "ai" /\ gameOver = Null) ~> (turn = "player" /\ lastAction.applied = "ai")

\* the AI's move has been applied, the game goes on and no timeout is pending
C14_Witness ==
  /\ turn = "player"
  /\ lastAction.applied = "ai"
  /\ gameOver = Null
  /\ aiTimers = 0

\* C15: setup validation - once the ownership has been initialised each side
\* owns at least one cell and each starting cell is owned by its own side
\* (a setup with one starting cell for both sides is never played).
C15_SetupValid ==
  mounted => \A s \in Sides : /\ ownedIds(cells, s) # {}
                              /\ cells[startIdOf(s)].owner = s

\* C16: territory colour consistency - for each side that has moved, every
\* cell the side owns displays the side's last colour.
C16_TerritoryColor ==
  \A s \in Sides :
    lastColorOf(s) # Null => \A i \in ownedIds(cells, s) : cells[i].color = lastColorOf(s)

\* the move of side with color would annex nothing
ZeroAnnex(side, color) ==
  Annexable(ownedIds(cells, side), color) = ownedIds(cells, side)

\* what a move of side with color that annexes nothing does
ZeroAnnexEffect(side, color) ==
  /\ lastAction'.applied = side
  /\ lastColorOf(side)' = color
  /\ lastColorOf(Other(side))' = lastColorOf(Other(side))
  /\ turn' = Other(side)
  /\ \A i \in Ids : /\ cells'[i].owner = cells[i].owner
                    /\ cells'[i].color = (IF cells[i].owner = side THEN color
                                          ELSE cells[i].color)

\* C17: a legal move that annexes zero cells is still applied - a request of
\* the player with an acceptable colour that annexes nothing, and a decision of
\* the AI for a colour that annexes nothing, recolours the mover's cells, sets
\* the mover's last colour, leaves the opponent's last colour unchanged and
\* passes the turn.
C17_ZeroAnnexApplied ==
  [][/\ (turn = "player" /\ gameOver = Null /\ hoveredCell' = hoveredCell) =>
          \A color \in legalSet("player") :
            (handlePlayerChooseColor(color) /\ ZeroAnnex("player", color))
               => ZeroAnnexEffect("player", color)
     /\ (TimeoutStep /\ legalSet("ai") # {} /\ ZeroAnnex("ai", aiLastColor'))
             => ZeroAnnexEffect("ai", aiLastColor')]_vars

\* the player has just moved and still owns its starting cell only, although
\* that cell has an unowned neighbour
C17_Witness ==
  /\ lastAction.applied = "player"
  /\ turn = "ai"
  /\ ownedIds(cells, "player") = {startIds.playerStartId}
  /\ cells[startIds.playerStartId].color = playerLastColor
  /\ \E j \in cells[startIds.playerStartId].neighbors : cells[j].owner = Null

\* C18: flood-fill termination - the traversal of every applied move ends with
\* an empty queue after at most one dequeue per cell of the board, no cell was
\* put on the queue more than once, and the cells that were queued are exactly
\* the visited cells the mover owns afterwards.
C18_FloodFillTerminates ==
  [][\A side \in Sides :
       MoveBy(side) =>
         \A r \in {applyMoveRun(cells, side, MoveColor(side))} :
           LET queued == {i \in Ids : r.enq[i] >= 1}
           IN /\ cells' = r.next
              /\ r.queue = <<>>
              /\ \A i \in Ids : r.enq[i] <= 1
              /\ r.steps = Cardinality(queued)
              /\ r.steps <= Cardinality(Ids)
              /\ queued \subseteq r.visited
              /\ queued = ownedIds(r.next, side)]_vars

\* a side has just moved and owns two adjacent cells: each was met again as a
\* neighbour of the other while the queue was drained
C18_Witness ==
  \E side \in Sides :
    /\ lastAction.applied = side
    /\ \E i \in ownedIds(cells, side) :
         \E j \in cells[i].neighbors : j # i /\ cells[j].owner = side

\* C19: initial state and result origin - the ownership initialisation leaves
\* exactly the two starting cells owned, one by each side, with both last
\* colours unset, the player to move and gameOver unset; and gameOver changes
\* only in a step that applies a move.
C19_InitialAndResultOrigin ==
  [][/\ (~mounted /\ mounted') =>
          /\ gameOver' = Null
          /\ turn' = "player"
          /\ playerLastColor' = Null /\ aiLastColor' = Null
          /\ ownedIds(cells', "player") = {startIds.playerStartId}
          /\ ownedIds(cells', "ai") = {startIds.aiStartId}
     /\ gameOver' # gameOver => \E s \in Sides : MoveBy(s)]_vars

\* C20: no win with distinct border starting cells - when the two starting
\* cells are distinct cells on the border, gameOver is never set.
C20_NoWinDistinctStarts ==
  (/\ startIds.playerStartId # startIds.aiStartId
   /\ cells[startIds.playerStartId].border
   /\ cells[startIds.aiStartId].border) => gameOver = Null

\* distinct border starting cells, every cell of the board is owned after the
\* AI's move, and the game is still running
C20_Witness ==
  /\ startIds.playerStartId # startIds.aiStartId
  /\ cells[startIds.playerStartId].border /\ cells[startIds.aiStartId].border
  /\ Cardinality(Ids) >= 3
  /\ \A i \in Ids : cells[i].owner \in Sides
  /\ lastAction.applied = "ai"
  /\ gameOver = Null

C22_LegalNeverEmpty ==
  \A s \in Sides : /\ Len(computeLegalColors(s)) >= 4
                   /\ Cardinality(legalSet(s)) >= 4

\* both sides have moved and each has exactly 4 legal colours
C22_Witness ==
  /\ playerLastColor # Null
  /\ aiLastColor # Null
  /\ \A s \in Sides : Cardinality(legalSet(s)) = 4

\* C23: the two last colours differ - whenever both sides have a last colour,
\* the two are different colours.
C23_LastColorsDiffer ==
  (playerLastColor # Null /\ aiLastColor # Null) => playerLastColor # aiLastColor

\* the player has answered a move of the AI, so both last colours are set and
\* each of the two sides has chosen with the other's last colour forbidden
C23_Witness ==
  /\ lastAction.applied = "player"
  /\ turn = "ai"
  /\ aiLastColor # Null
  /\ playerLastColor # Null

\* the cells of side linked to the cells of R by a path of cells of side
RECURSIVE OwnedReach(_, _)
OwnedReach(R, side) ==
  LET add == {j \in ownedIds(cells, side) \ R : \E i \in R : j \in cells[i].neighbors}
  IN IF add = {} THEN R ELSE OwnedReach(R \cup add, side)

\* C24: territory connectivity - once the ownership has been initialised, each
\* side owns its starting cell and every cell the side owns is linked to the
\* starting cell by a path of cells the side owns.
C24_TerritoryConnected ==
  mounted => \A s \in Sides :
               /\ cells[startIdOf(s)].owner = s
               /\ OwnedReach({startIdOf(s)}, s) = ownedIds(cells, s)

====
